---- MODULE Spec2Model ----
(***************************************************************************)
(* Model of ov_type::IMU (ov_core/src/types/IMU.h): a composite state      *)
(* variable made of a PoseJPL, three Vec(3) and a keyframe PoseJPL, kept   *)
(* on a heap of shared objects.                                            *)
(*                                                                         *)
(* Numbers.  Every real number x of the program is stored as the integer   *)
(* 2x (Fix), so that the half-integer unit quaternions (+-1+-i+-j+-k)/2    *)
(* and their products are represented exactly; on the inputs drawn below   *)
(* every product, square root and quotient is exact in the reals and in    *)
(* IEEE doubles alike.                                                     *)
(*                                                                         *)
(* Addresses.  The heap is a sequence of objects, an address is an index   *)
(* into it and 0 is nullptr.  A std::shared_ptr is an address.             *)
(*                                                                         *)
(* assert.  A failing assert(...) terminates the program (aborted).        *)
(***************************************************************************)
EXTENDS Integers, Sequences, FiniteSets, TLC

VARIABLES heap,      \* sequence of objects; heap[a] is the object at address a
          imus,      \* the caller's handles: imus[b] is the address of an IMU, or 0
          call,      \* the last call made: [op, self, arg, ret]
          aborted    \* TRUE once an assertion has failed

vars == <<heap, imus, call, aborted>>

(* Bound on the magnitude of the additive entries (stored units). *)
MaxVal == 8

----------------------------------------------------------------------------
(* Fixed-point helpers and Eigen block access *)

Fix(x) == x + x

Half(x) == x \div 2

Zero(n) == [k \in 1..n |-> 0]

\* v.block(i, 0, n, 1)
block(v, i, n) == SubSeq(v, i + 1, i + n)

\* v.block(i, 0, Len(w), 1) = w
setblock(v, i, w) == [k \in 1..Len(v) |-> IF k > i /\ k <= i + Len(w) THEN w[k - i] ELSE v[k]]

\* v.block(i, 0, Len(w), 1) += w
addblock(v, i, w) == [k \in 1..Len(v) |-> IF k > i /\ k <= i + Len(w) THEN v[k] + w[k - i] ELSE v[k]]

\* an Eigen::MatrixXd argument: its shape and its first column
Mat(r, c, v) == [rows |-> r, cols |-> c, col |-> v]

ColVec(v) == Mat(Len(v), 1, v)

----------------------------------------------------------------------------
(* utils/quat_ops.h: JPL quaternions, scalar last *)

SumSq(q) == q[1] * q[1] + q[2] * q[2] + q[3] * q[3] + q[4] * q[4]

\* the exact square root (the inputs of the model keep every norm rational)
Sqrt(n) == CHOOSE r \in 0..n : r * r = n

\* q / q.norm()
Normalize(q) ==
  LET n == Sqrt(SumSq(q))
  IN <<Fix(q[1]) \div n, Fix(q[2]) \div n, Fix(q[3]) \div n, Fix(q[4]) \div n>>

quatnorm(q) == Normalize(q)

\* q (x) p = [ q4*pv + p4*qv - qv x pv ; q4*p4 - qv.pv ], then renormalised
quat_multiply(q, p) ==
  LET r == << q[4] * p[1] + q[3] * p[2] - q[2] * p[3] + q[1] * p[4],
             -q[3] * p[1] + q[4] * p[2] + q[1] * p[3] + q[2] * p[4],
              q[2] * p[1] - q[1] * p[2] + q[4] * p[3] + q[3] * p[4],
             -q[1] * p[1] - q[2] * p[2] - q[3] * p[3] + q[4] * p[4] >>
  IN Normalize(<<Half(r[1]), Half(r[2]), Half(r[3]), Half(r[4])>>)

----------------------------------------------------------------------------
(* Type, Vec, JPLQuat, PoseJPL *)

\* Type(size): an unregistered variable of the given error dimension
Type(t, size) ==
  [type |-> t, _id |-> -1, _size |-> size, _value |-> <<>>, _fej |-> <<>>,
   _q |-> 0, _p |-> 0,
   _pose |-> 0, _v |-> 0, _bg |-> 0, _ba |-> 0, _keyframe_pose |-> 0]

Type_set_local_id(h, a, new_id) == [h EXCEPT ![a]._id = new_id]

Type_set_value(h, a, v) == [h EXCEPT ![a]._value = v]

Type_set_fej(h, a, v) == [h EXCEPT ![a]._fej = v]

\* new Vec(dim); the new object is the last of the returned heap
Vec(h, dim) ==
  Append(h, [Type("Vec", dim) EXCEPT !._value = Zero(dim), !._fej = Zero(dim)])

\* new JPLQuat()
JPLQuat(h) ==
  Append(h, [Type("JPLQuat", 3) EXCEPT !._value = <<0, 0, 0, Fix(1)>>,
                                        !._fej = <<0, 0, 0, Fix(1)>>])

PoseJPL_set_value(h, a, v) ==
  LET h1 == Type_set_value(h, h[a]._q, block(v, 0, 4))
      h2 == Type_set_value(h1, h[a]._p, block(v, 4, 3))
  IN Type_set_value(h2, a, v)

PoseJPL_set_fej(h, a, v) ==
  LET h1 == Type_set_fej(h, h[a]._q, block(v, 0, 4))
      h2 == Type_set_fej(h1, h[a]._p, block(v, 4, 3))
  IN Type_set_fej(h2, a, v)

\* the value of a default-constructed PoseJPL
PoseJPL_default == <<0, 0, 0, Fix(1), 0, 0, 0>>

\* new PoseJPL(); the pose is at Len(h) + 1, its quaternion and position follow
PoseJPL(h) ==
  LET a  == Len(h) + 1
      h1 == Append(h, Type("PoseJPL", 6))
      h2 == JPLQuat(h1)
      h3 == Vec(h2, 3)
      h4 == [h3 EXCEPT ![a]._q = a + 1, ![a]._p = a + 2]
  IN PoseJPL_set_fej(PoseJPL_set_value(h4, a, PoseJPL_default), a, PoseJPL_default)

\* the quaternion and the position share the pose's index
PoseJPL_set_local_id(h, a, new_id) ==
  LET h1 == Type_set_local_id(h, a, new_id)
      h2 == Type_set_local_id(h1, h[a]._q, new_id)
  IN Type_set_local_id(h2, h[a]._p, new_id)

PoseJPL_check_if_subvariable(h, a, check) ==
  IF check = h[a]._q THEN h[a]._q
  ELSE IF check = h[a]._p THEN h[a]._p
  ELSE 0

PoseJPL_quat(h, a) == h[h[a]._q]._value

----------------------------------------------------------------------------
(* IMU *)

Failed(h) == [ok |-> FALSE, heap |-> h]

Done(h) == [ok |-> TRUE, heap |-> h]

\* set_value_internal without the check of the column count
set_value_internal_nocols(h, a, new_value) ==
  IF new_value.rows # 23 THEN Failed(h)
  ELSE LET v  == new_value.col
           h1 == PoseJPL_set_value(h, h[a]._pose, block(v, 0, 7))
           h2 == Type_set_value(h1, h[a]._v, block(v, 7, 3))
           h3 == Type_set_value(h2, h[a]._bg, block(v, 10, 3))
           h4 == Type_set_value(h3, h[a]._ba, block(v, 13, 3))
           h5 == PoseJPL_set_value(h4, h[a]._keyframe_pose, block(v, 16, 7))
       IN Done([h5 EXCEPT ![a]._value = v])

\* IMU::set_value_internal: the heap when the call ends, and whether it returned
set_value_internal(h, a, new_value) ==
  IF new_value.rows # 23 THEN Failed(h)
  ELSE IF new_value.cols # 1 THEN Failed(h)
  ELSE LET v  == new_value.col
           h1 == PoseJPL_set_value(h, h[a]._pose, block(v, 0, 7))
           h2 == Type_set_value(h1, h[a]._v, block(v, 7, 3))
           h3 == Type_set_value(h2, h[a]._bg, block(v, 10, 3))
           h4 == Type_set_value(h3, h[a]._ba, block(v, 13, 3))
           h5 == PoseJPL_set_value(h4, h[a]._keyframe_pose, block(v, 16, 7))
       IN Done([h5 EXCEPT ![a]._value = v])

\* set_fej_internal storing the full vector in _value instead of _fej
set_fej_internal_value(h, a, new_value) ==
  IF new_value.rows # 23 THEN Failed(h)
  ELSE IF new_value.cols # 1 THEN Failed(h)
  ELSE LET v  == new_value.col
           h1 == PoseJPL_set_fej(h, h[a]._pose, block(v, 0, 7))
           h2 == Type_set_fej(h1, h[a]._v, block(v, 7, 3))
           h3 == Type_set_fej(h2, h[a]._bg, block(v, 10, 3))
           h4 == Type_set_fej(h3, h[a]._ba, block(v, 13, 3))
           h5 == PoseJPL_set_fej(h4, h[a]._keyframe_pose, block(v, 16, 7))
       IN Done([h5 EXCEPT ![a]._value = v])

\* IMU::set_fej_internal
set_fej_internal(h, a, new_value) ==
  IF new_value.rows # 23 THEN Failed(h)
  ELSE IF new_value.cols # 1 THEN Failed(h)
  ELSE LET v  == new_value.col
           h1 == PoseJPL_set_fej(h, h[a]._pose, block(v, 0, 7))
           h2 == Type_set_fej(h1, h[a]._v, block(v, 7, 3))
           h3 == Type_set_fej(h2, h[a]._bg, block(v, 10, 3))
           h4 == Type_set_fej(h3, h[a]._ba, block(v, 13, 3))
           h5 == PoseJPL_set_fej(h4, h[a]._keyframe_pose, block(v, 16, 7))
       IN Done([h5 EXCEPT ![a]._fej = v])

set_value(h, a, new_value) == set_value_internal(h, a, new_value)

set_fej(h, a, new_value) == set_fej_internal(h, a, new_value)

\* the default state value
imu0 == [Zero(23) EXCEPT ![4] = Fix(1), ![20] = Fix(1)]

\* new IMU(); the IMU is at Len(h) + 1 and its nine descendants follow
IMU(h) ==
  LET a  == Len(h) + 1
      h0 == Append(h, Type("IMU", 21))
      h1 == PoseJPL(h0)
      h2 == Vec(h1, 3)
      h3 == Vec(h2, 3)
      h4 == Vec(h3, 3)
      h5 == PoseJPL(h4)
      h6 == [h5 EXCEPT ![a]._pose = a + 1, ![a]._v = a + 4, ![a]._bg = a + 5,
                       ![a]._ba = a + 6, ![a]._keyframe_pose = a + 7]
  IN set_fej_internal(set_value_internal(h6, a, ColVec(imu0)).heap, a, ColVec(imu0)).heap

\* set_local_id advancing the offsets of an unregistered block too
set_local_id_advance(h, a, new_id) ==
  LET h0 == Type_set_local_id(h, a, new_id)
      h1 == PoseJPL_set_local_id(h0, h[a]._pose, new_id)
      h2 == Type_set_local_id(h1, h[a]._v, h1[h[a]._pose]._id + h1[h[a]._pose]._size)
      h3 == Type_set_local_id(h2, h[a]._bg, h2[h[a]._v]._id + h2[h[a]._v]._size)
      h4 == Type_set_local_id(h3, h[a]._ba, h3[h[a]._bg]._id + h3[h[a]._bg]._size)
  IN PoseJPL_set_local_id(h4, h[a]._keyframe_pose, h4[h[a]._ba]._id + h4[h[a]._ba]._size)

set_local_id(h, a, new_id) ==
  LET h0 == Type_set_local_id(h, a, new_id)
      h1 == PoseJPL_set_local_id(h0, h[a]._pose, new_id)
      h2 == Type_set_local_id(h1, h[a]._v,
              h1[h[a]._pose]._id + (IF new_id # -1 THEN h1[h[a]._pose]._size ELSE 0))
      h3 == Type_set_local_id(h2, h[a]._bg,
              h2[h[a]._v]._id + (IF new_id # -1 THEN h2[h[a]._v]._size ELSE 0))
      h4 == Type_set_local_id(h3, h[a]._ba,
              h3[h[a]._bg]._id + (IF new_id # -1 THEN h3[h[a]._bg]._size ELSE 0))
  IN PoseJPL_set_local_id(h4, h[a]._keyframe_pose,
              h4[h[a]._ba]._id + (IF new_id # -1 THEN h4[h[a]._ba]._size ELSE 0))

quat(h, a) == PoseJPL_quat(h, h[a]._pose)

keyframe_quat(h, a) == PoseJPL_quat(h, h[a]._keyframe_pose)

\* update_newX adding the gyro-bias correction to the velocity
update_newX_offset(h, a, dx) ==
  LET newX0 == h[a]._value
      dq == quatnorm([k \in 1..3 |-> Half(block(dx, 0, 3)[k])] \o <<Fix(1)>>)
      d_keyframe_q == quatnorm([k \in 1..3 |-> Half(block(dx, 15, 3)[k])] \o <<Fix(1)>>)
      newX1 == setblock(newX0, 0, quat_multiply(dq, quat(h, a)))
      newX2 == addblock(newX1, 4, block(dx, 3, 3))
      newX3 == addblock(newX2, 7, block(dx, 9, 3))
      newX4 == addblock(newX3, 10, block(dx, 9, 3))
      newX5 == addblock(newX4, 13, block(dx, 12, 3))
      newX6 == setblock(newX5, 16, quat_multiply(d_keyframe_q, keyframe_quat(h, a)))
  IN addblock(newX6, 20, block(dx, 18, 3))

\* update_newX starting from a zero vector instead of the current value
update_newX_zero(h, a, dx) ==
  LET newX0 == Zero(23)
      dq == quatnorm([k \in 1..3 |-> Half(block(dx, 0, 3)[k])] \o <<Fix(1)>>)
      d_keyframe_q == quatnorm([k \in 1..3 |-> Half(block(dx, 15, 3)[k])] \o <<Fix(1)>>)
      newX1 == setblock(newX0, 0, quat_multiply(dq, quat(h, a)))
      newX2 == addblock(newX1, 4, block(dx, 3, 3))
      newX3 == addblock(newX2, 7, block(dx, 6, 3))
      newX4 == addblock(newX3, 10, block(dx, 9, 3))
      newX5 == addblock(newX4, 13, block(dx, 12, 3))
      newX6 == setblock(newX5, 16, quat_multiply(d_keyframe_q, keyframe_quat(h, a)))
  IN addblock(newX6, 20, block(dx, 18, 3))

\* update_newX adding the rotation corrections instead of composing them
update_newX_additive(h, a, dx) ==
  LET newX0 == h[a]._value
      newX1 == addblock(newX0, 0, [k \in 1..3 |-> Half(block(dx, 0, 3)[k])])
      newX2 == addblock(newX1, 4, block(dx, 3, 3))
      newX3 == addblock(newX2, 7, block(dx, 6, 3))
      newX4 == addblock(newX3, 10, block(dx, 9, 3))
      newX5 == addblock(newX4, 13, block(dx, 12, 3))
      newX6 == addblock(newX5, 16, [k \in 1..3 |-> Half(block(dx, 15, 3)[k])])
  IN addblock(newX6, 20, block(dx, 18, 3))

\* the vector newX that IMU::update hands to set_value
update_newX(h, a, dx) ==
  LET newX0 == h[a]._value
      dq == quatnorm([k \in 1..3 |-> Half(block(dx, 0, 3)[k])] \o <<Fix(1)>>)
      d_keyframe_q == quatnorm([k \in 1..3 |-> Half(block(dx, 15, 3)[k])] \o <<Fix(1)>>)
      newX1 == setblock(newX0, 0, quat_multiply(dq, quat(h, a)))
      newX2 == addblock(newX1, 4, block(dx, 3, 3))
      newX3 == addblock(newX2, 7, block(dx, 6, 3))
      newX4 == addblock(newX3, 10, block(dx, 9, 3))
      newX5 == addblock(newX4, 13, block(dx, 12, 3))
      newX6 == setblock(newX5, 16, quat_multiply(d_keyframe_q, keyframe_quat(h, a)))
  IN addblock(newX6, 20, block(dx, 18, 3))

update(h, a, dx) ==
  IF Len(dx) # h[a]._size THEN Failed(h)
  ELSE set_value(h, a, ColVec(update_newX(h, a, dx)))

\* reset_keyframe_states leaving the block's own _fej as it was
reset_keyframe_states_nofej(h, a) ==
  LET new_keyframe == PoseJPL_default
      h1 == PoseJPL_set_value(h, h[a]._keyframe_pose, new_keyframe)
      h2 == PoseJPL_set_fej(h1, h[a]._keyframe_pose, new_keyframe)
  IN [h2 EXCEPT ![a]._value = setblock(h2[a]._value, 16, new_keyframe)]

\* reset_keyframe_states leaving the keyframe pose object as it was
reset_keyframe_states_nochild(h, a) ==
  [h EXCEPT ![a]._value = setblock(h[a]._value, 16, PoseJPL_default),
            ![a]._fej = setblock(h[a]._fej, 16, PoseJPL_default)]

reset_keyframe_states(h, a) ==
  LET new_keyframe == PoseJPL_default
      h1 == PoseJPL_set_value(h, h[a]._keyframe_pose, new_keyframe)
      h2 == PoseJPL_set_fej(h1, h[a]._keyframe_pose, new_keyframe)
  IN [h2 EXCEPT ![a]._value = setblock(h2[a]._value, 16, new_keyframe),
                ![a]._fej = setblock(h2[a]._fej, 16, new_keyframe)]

\* clone copying the pointers to the sub-variables (a copy of *this)
clone_shallow(h, a) ==
  LET c  == Len(h) + 1
      h1 == IMU(h)
      h2 == [h1 EXCEPT ![c]._pose = h[a]._pose, ![c]._v = h[a]._v, ![c]._bg = h[a]._bg,
                       ![c]._ba = h[a]._ba, ![c]._keyframe_pose = h[a]._keyframe_pose]
      h3 == set_value(h2, c, ColVec(h[a]._value)).heap
  IN set_fej(h3, c, ColVec(h[a]._fej)).heap

\* IMU::clone; the clone is at Len(h) + 1
clone(h, a) ==
  LET c  == Len(h) + 1
      h1 == IMU(h)
      h2 == set_value(h1, c, ColVec(h[a]._value)).heap
  IN set_fej(h2, c, ColVec(h[a]._fej)).heap

\* check_if_subvariable that does not look inside the keyframe pose
check_if_subvariable_shallow(h, a, check) ==
  IF check = h[a]._pose THEN h[a]._pose
  ELSE IF check = PoseJPL_check_if_subvariable(h, h[a]._pose, check)
    THEN PoseJPL_check_if_subvariable(h, h[a]._pose, check)
  ELSE IF check = h[a]._v THEN h[a]._v
  ELSE IF check = h[a]._bg THEN h[a]._bg
  ELSE IF check = h[a]._ba THEN h[a]._ba
  ELSE IF check = h[a]._keyframe_pose THEN h[a]._keyframe_pose
  ELSE 0

check_if_subvariable(h, a, check) ==
  IF check = h[a]._pose THEN h[a]._pose
  ELSE IF check = PoseJPL_check_if_subvariable(h, h[a]._pose, check)
    THEN PoseJPL_check_if_subvariable(h, h[a]._pose, check)
  ELSE IF check = h[a]._v THEN h[a]._v
  ELSE IF check = h[a]._bg THEN h[a]._bg
  ELSE IF check = h[a]._ba THEN h[a]._ba
  ELSE IF check = h[a]._keyframe_pose THEN h[a]._keyframe_pose
  ELSE IF check = PoseJPL_check_if_subvariable(h, h[a]._keyframe_pose, check)
    THEN PoseJPL_check_if_subvariable(h, h[a]._keyframe_pose, check)
  ELSE 0

----------------------------------------------------------------------------
(* The caller: handles, inputs and calls *)

Handles == {"b1", "b2"}

\* a 21-entry correction: rotation, position, velocity, gyro bias, accel bias,
\* keyframe rotation, keyframe position
dMix == <<4, 4, 4,  1, 1, 1,  2, 2, 2,  3, 3, 3,  -1, -1, -1,  -4, 4, 4,  5, 5, 5>>

dZero == Zero(21)

\* corrections that only rotate: the orientation, the keyframe orientation
dRot == [dZero EXCEPT ![1] = 4, ![2] = -4, ![3] = 4]

dKRot == [dZero EXCEPT ![16] = 4, ![17] = 4, ![18] = -4]

Deltas == {dZero, dMix}

\* corrections of the wrong length
BadDeltas == {SubSeq(dMix, 1, 20), dMix \o <<1>>}

\* a state with unit orientations, the first with a negative scalar part
vA == <<1, 1, 1, -1,  1, 2, 3,  3, 2, 1,  -1, -2, -3,  2, 0, -2,  1, 1, 1, 1,  2, 2, 2>>

\* a state whose orientation has norm 2
vN == [imu0 EXCEPT ![4] = Fix(Fix(1))]

Values == {ColVec(vA), ColVec(vN)}

\* arguments of the wrong shape
BadValues == {Mat(22, 1, SubSeq(vA, 1, 22)), Mat(24, 1, vA \o <<1>>), Mat(23, 2, vA)}

LocalIds == {-1, 0, 5}

NoCall == [op |-> "", self |-> "", dx |-> <<>>, new_value |-> Mat(0, 0, <<>>),
           new_id |-> -1, check |-> 0, ret |-> 0]

Live(b) == ~aborted /\ imus[b] # 0

\* the entries of a state value that updates add to
Additive(v) == {v[k] : k \in (5..16) \cup (21..23)}

InRange(v) == \A x \in Additive(v) : x >= -MaxVal /\ x <= MaxVal

Init ==
  /\ heap = IMU(<<>>)
  /\ imus = [b \in Handles |-> IF b = "b1" THEN 1 ELSE 0]
  /\ call = [NoCall EXCEPT !.op = "IMU", !.self = "b1", !.ret = 1]
  /\ aborted = FALSE

Update(b, dx) ==
  /\ Live(b)
  /\ Len(dx) = 21 => InRange(update_newX(heap, imus[b], dx))
  /\ LET r == update(heap, imus[b], dx)
     IN /\ heap' = r.heap
        /\ aborted' = ~r.ok
  /\ call' = [NoCall EXCEPT !.op = "update", !.self = b, !.dx = dx]
  /\ UNCHANGED imus

SetValue(b, new_value) ==
  /\ Live(b)
  /\ LET r == set_value(heap, imus[b], new_value)
     IN /\ heap' = r.heap
        /\ aborted' = ~r.ok
  /\ call' = [NoCall EXCEPT !.op = "set_value", !.self = b, !.new_value = new_value]
  /\ UNCHANGED imus

SetFej(b, new_value) ==
  /\ Live(b)
  /\ LET r == set_fej(heap, imus[b], new_value)
     IN /\ heap' = r.heap
        /\ aborted' = ~r.ok
  /\ call' = [NoCall EXCEPT !.op = "set_fej", !.self = b, !.new_value = new_value]
  /\ UNCHANGED imus

ResetKeyframeStates(b) ==
  /\ Live(b)
  /\ heap' = reset_keyframe_states(heap, imus[b])
  /\ call' = [NoCall EXCEPT !.op = "reset_keyframe_states", !.self = b]
  /\ UNCHANGED <<imus, aborted>>

SetLocalId(b, new_id) ==
  /\ Live(b)
  /\ heap' = set_local_id(heap, imus[b], new_id)
  /\ call' = [NoCall EXCEPT !.op = "set_local_id", !.self = b, !.new_id = new_id]
  /\ UNCHANGED <<imus, aborted>>

\* c = b->clone()
Clone(b, c) ==
  /\ Live(b)
  /\ imus[c] = 0
  /\ heap' = clone(heap, imus[b])
  /\ imus' = [imus EXCEPT ![c] = Len(heap) + 1]
  /\ call' = [NoCall EXCEPT !.op = "clone", !.self = b, !.ret = Len(heap) + 1]
  /\ UNCHANGED aborted

CheckIfSubvariable(b, check) ==
  /\ Live(b)
  /\ call' = [NoCall EXCEPT !.op = "check_if_subvariable", !.self = b, !.check = check,
                            !.ret = check_if_subvariable(heap, imus[b], check)]
  /\ UNCHANGED <<heap, imus, aborted>>

\* two handles, every operation that changes a block
Next ==
  \/ \E b \in Handles, dx \in {dMix, SubSeq(dMix, 1, 20)} : Update(b, dx)
  \/ \E b \in Handles, m \in {ColVec(vA), Mat(23, 2, vA)} : SetValue(b, m)
  \/ \E b \in Handles, m \in {ColVec(vA)} : SetFej(b, m)
  \/ \E b \in Handles : ResetKeyframeStates(b)
  \/ \E b \in Handles, i \in {5} : SetLocalId(b, i)
  \/ \E b, c \in Handles : Clone(b, c)

Spec == Init /\ [][Next]_vars

\* one block, every input
NextBlock ==
  \/ \E dx \in Deltas \cup BadDeltas : Update("b1", dx)
  \/ \E m \in Values \cup BadValues : SetValue("b1", m)
  \/ \E m \in Values \cup BadValues : SetFej("b1", m)
  \/ ResetKeyframeStates("b1")
  \/ \E i \in LocalIds : SetLocalId("b1", i)

SpecBlock == Init /\ [][NextBlock]_vars

\* one block, updates only
NextUpdate == \E dx \in Deltas \cup {dRot, dKRot} : Update("b1", dx)

SpecUpdate == Init /\ [][NextUpdate]_vars

\* two handles, lookups
NextFind ==
  \/ \E b \in Handles, check \in 0..Len(heap) : CheckIfSubvariable(b, check)
  \/ \E b, c \in Handles : Clone(b, c)
  \/ \E b \in Handles : SetValue(b, ColVec(vA))
  \/ \E b \in Handles : SetLocalId(b, 5)

SpecFind == Init /\ [][NextFind]_vars

----------------------------------------------------------------------------
(* Vocabulary of the properties *)

\* the IMU and its nine descendants, by address
Descendants(h, a) ==
  {h[a]._pose, h[h[a]._pose]._q, h[h[a]._pose]._p, h[a]._v, h[a]._bg, h[a]._ba,
   h[a]._keyframe_pose, h[h[a]._keyframe_pose]._q, h[h[a]._keyframe_pose]._p}

Owned(h, a) == {a} \cup Descendants(h, a)

IsUnit(q) == SumSq(q) = Fix(1) * Fix(1)

AddVec(u, w) == [k \in 1..Len(u) |-> u[k] + w[k]]

\* dq(dtheta) = normalize([0.5 dtheta; 1])
Increment(dtheta) == quatnorm(<<Half(dtheta[1]), Half(dtheta[2]), Half(dtheta[3]), Fix(1)>>)

\* everything of an object but its current value
NotValue(o) == [o EXCEPT !._value = <<>>]

\* a 23 x 1 argument whose two quaternions are unit
WellFormed(m) ==
  /\ m.rows = 23
  /\ m.cols = 1
  /\ IsUnit(block(m.col, 0, 4))
  /\ IsUnit(block(m.col, 16, 4))

Mismatched(c) ==
  \/ c.op = "update" /\ Len(c.dx) # 21
  \/ c.op \in {"set_value", "set_fej"} /\ (c.new_value.rows # 23 \/ c.new_value.cols # 1)

\* the flat vectors of a block and of its poses are those of their children
Consistent(h, a) ==
  LET P == h[a]._pose
      K == h[a]._keyframe_pose
  IN /\ h[a]._value = h[P]._value \o h[h[a]._v]._value \o h[h[a]._bg]._value
                        \o h[h[a]._ba]._value \o h[K]._value
     /\ h[a]._fej = h[P]._fej \o h[h[a]._v]._fej \o h[h[a]._bg]._fej
                        \o h[h[a]._ba]._fej \o h[K]._fej
     /\ h[P]._value = h[h[P]._q]._value \o h[h[P]._p]._value
     /\ h[P]._fej = h[h[P]._q]._fej \o h[h[P]._p]._fej
     /\ h[K]._value = h[h[K]._q]._value \o h[h[K]._p]._value
     /\ h[K]._fej = h[h[K]._q]._fej \o h[h[K]._p]._fej

----------------------------------------------------------------------------
C1_UpdateStep ==
  (call'.op = "update" /\ Len(call'.dx) = 21) =>
    LET a   == imus[call'.self]
        dx  == call'.dx
        old == heap[a]._value
        new == heap'[a]._value
    IN /\ ~aborted'
       /\ block(new, 0, 4) = quat_multiply(Increment(block(dx, 0, 3)), block(old, 0, 4))
       /\ block(new, 4, 3) = AddVec(block(old, 4, 3), block(dx, 3, 3))
       /\ block(new, 7, 3) = AddVec(block(old, 7, 3), block(dx, 6, 3))
       /\ block(new, 10, 3) = AddVec(block(old, 10, 3), block(dx, 9, 3))
       /\ block(new, 13, 3) = AddVec(block(old, 13, 3), block(dx, 12, 3))
       /\ block(new, 16, 4) = quat_multiply(Increment(block(dx, 15, 3)), block(old, 16, 4))
       /\ block(new, 20, 3) = AddVec(block(old, 20, 3), block(dx, 18, 3))
       /\ Len(heap') = Len(heap)
       /\ \A o \in 1..Len(heap) : NotValue(heap'[o]) = NotValue(heap[o])

C2_SetLocalId ==
  call.op = "set_local_id" =>
    LET a   == imus[call.self]
        i   == call.new_id
        P   == heap[heap[a]._pose]
        V   == heap[heap[a]._v]
        Bg  == heap[heap[a]._bg]
        Ba  == heap[heap[a]._ba]
        K   == heap[heap[a]._keyframe_pose]
        ids == <<P._id, V._id, Bg._id, Ba._id, K._id>>
    IN /\ heap[a]._id = i
       /\ P._id = i
       /\ V._id = P._id + (IF i # -1 THEN P._size ELSE 0)
       /\ Bg._id = V._id + (IF i # -1 THEN V._size ELSE 0)
       /\ Ba._id = Bg._id + (IF i # -1 THEN Bg._size ELSE 0)
       /\ K._id = Ba._id + (IF i # -1 THEN Ba._size ELSE 0)
       /\ i >= 0 => ids = <<i, i + 6, i + 9, i + 12, i + 15>>
       /\ i >= 0 => K._id + K._size = i + heap[a]._size
       /\ i = -1 => ids = <<-1, -1, -1, -1, -1>>

C2_Witness ==
  /\ call.op = "set_local_id" /\ call.new_id = -1
  /\ heap[imus["b1"]]._value = vA
  /\ heap[heap[imus["b1"]]._keyframe_pose]._id = -1

C3_MismatchStep == Mismatched(call') => (aborted' /\ heap' = heap /\ imus' = imus)

(* C3: a call with an argument of the wrong dimension (update with a delta *)
(* of length other than 21, set_value or set_fej with an argument that is  *)
(* not 23 x 1) aborts and leaves every object as it was.                   *)
C3_Mismatch == [][C3_MismatchStep]_vars

C3_Witness ==
  /\ aborted
  /\ call.op = "set_value" /\ call.new_value.rows = 23 /\ call.new_value.cols = 2
  /\ heap[imus["b1"]]._value = vN
  /\ heap[imus["b1"]]._fej = vA

C4_RoundTripStep ==
  LET a == imus[call'.self]
      m == call'.new_value
  IN /\ (call'.op = "set_value" /\ WellFormed(m)) =>
          (~aborted' /\ heap'[a]._value = m.col /\ heap'[a]._fej = heap[a]._fej)
     /\ (call'.op = "set_fej" /\ WellFormed(m)) =>
          (~aborted' /\ heap'[a]._fej = m.col /\ heap'[a]._value = heap[a]._value)

(* C4: set_value(v) with a well-formed v makes the value exactly v and     *)
(* leaves the linearization value alone; set_fej(w) with a well-formed w   *)
(* makes the linearization value exactly w and leaves the value alone.     *)
C4_RoundTrip == [][C4_RoundTripStep]_vars

C4_Witness ==
  /\ call.op = "set_fej" /\ call.new_value = ColVec(vA) /\ ~aborted
  /\ heap[imus["b1"]]._fej = vA
  /\ block(heap[imus["b1"]]._value, 4, 3) = <<1, 1, 1>>

C5_NoSharing ==
  (imus["b1"] # 0 /\ imus["b2"] # 0) =>
    Owned(heap, imus["b1"]) \cap Owned(heap, imus["b2"]) = {}

C5_CloneStep ==
  call'.op = "clone" =>
    LET a == imus[call'.self]
        c == call'.ret
    IN /\ c \notin 1..Len(heap)
       /\ Cardinality(Owned(heap', c)) = 10
       /\ Owned(heap', c) \cap (1..Len(heap)) = {}
       /\ heap'[c]._value = heap[a]._value
       /\ heap'[c]._fej = heap[a]._fej
       /\ \A o \in Owned(heap', c) : heap'[o]._id = -1
       /\ \A o \in 1..Len(heap) : heap'[o] = heap[o]

C5_FrameStep ==
  \A g \in Handles :
    (g # call'.self /\ imus[g] # 0) =>
      /\ imus'[g] = imus[g]
      /\ \A o \in Owned(heap, imus[g]) : heap'[o] = heap[o]

(* C5: clone() returns a block with ten objects of its own, none shared   *)
(* with the original, holding the original's value and linearization value *)
(* and index -1 throughout, and leaves the original as it was; afterwards  *)
(* a call on one of the two blocks changes no object of the other.         *)
C5_CloneIndependence ==
  /\ []C5_NoSharing
  /\ [][C5_CloneStep]_vars
  /\ [][C5_FrameStep]_vars

C5_Witness ==
  /\ imus["b2"] # 0 /\ ~aborted
  /\ call.op = "update" /\ call.self = "b2"
  /\ heap[imus["b1"]]._value = vA
  /\ heap[imus["b1"]]._id = 5
  /\ heap[imus["b2"]]._id = -1
  /\ block(heap[imus["b2"]]._value, 4, 3) = <<2, 3, 4>>

C6_ResetStep ==
  call'.op = "reset_keyframe_states" =>
    LET a  == imus[call'.self]
        K  == heap[a]._keyframe_pose
        id == <<0, 0, 0, Fix(1)>>
    IN /\ block(heap'[a]._value, 16, 7) = id \o <<0, 0, 0>>
       /\ block(heap'[a]._fej, 16, 7) = id \o <<0, 0, 0>>
       /\ block(heap'[a]._value, 0, 16) = block(heap[a]._value, 0, 16)
       /\ block(heap'[a]._fej, 0, 16) = block(heap[a]._fej, 0, 16)
       /\ heap'[K]._value = id \o <<0, 0, 0>> /\ heap'[K]._fej = id \o <<0, 0, 0>>
       /\ heap'[heap[K]._q]._value = id /\ heap'[heap[K]._q]._fej = id
       /\ heap'[heap[K]._p]._value = <<0, 0, 0>> /\ heap'[heap[K]._p]._fej = <<0, 0, 0>>
       /\ Len(heap') = Len(heap)
       /\ \A o \in 1..Len(heap) :
            /\ heap'[o]._id = heap[o]._id
            /\ o \notin {a, K, heap[K]._q, heap[K]._p} => heap'[o] = heap[o]
       /\ ~aborted'

(* C6: reset_keyframe_states() sets entries 16..22 of the value and of the *)
(* linearization value, and the keyframe pose's value and linearization    *)
(* value, to orientation [0,0,0,1] and position zero, and changes neither  *)
(* entries 0..15 of either vector, nor another child, nor any index.       *)
C6_Reset == [][C6_ResetStep]_vars

C6_Witness ==
  /\ call.op = "reset_keyframe_states"
  /\ heap[imus["b1"]]._id = 5
  /\ heap[imus["b1"]]._value = setblock(vA, 16, PoseJPL_default)
  /\ heap[imus["b1"]]._fej = setblock(vA, 16, PoseJPL_default)

C7_ZeroDeltaStep ==
  LET a == imus[call'.self]
  IN (/\ call'.op = "update"
      /\ call'.dx = Zero(21)
      /\ IsUnit(block(heap[a]._value, 0, 4))
      /\ IsUnit(block(heap[a]._value, 16, 4))) =>
        (~aborted' /\ heap'[a]._value = heap[a]._value /\ heap' = heap)

(* C7: an update with the all-zero 21-vector leaves the value, and every   *)
(* object, unchanged whenever the orientation and the keyframe orientation *)
(* are unit.                                                               *)
C7_ZeroDelta == [][C7_ZeroDeltaStep]_vars

C7_Witness ==
  /\ call.op = "update" /\ call.dx = Zero(21) /\ ~aborted
  /\ heap[imus["b1"]]._value = vA

C8_Result ==
  call.op = "check_if_subvariable" =>
    call.ret = (IF call.check \in Descendants(heap, imus[call.self]) THEN call.check ELSE 0)

C8_QueryStep ==
  call'.op = "check_if_subvariable" => (heap' = heap /\ imus' = imus /\ aborted' = aborted)

(* C8: check_if_subvariable(check) returns check when check is one of the  *)
(* block's nine descendants and nullptr otherwise (the block itself, an    *)
(* object of another block, nullptr), and changes nothing.                 *)
C8_CheckIfSubvariable == []C8_Result /\ [][C8_QueryStep]_vars

C8_Witness ==
  /\ call.op = "check_if_subvariable" /\ call.self = "b2"
  /\ imus["b2"] # 0
  /\ call.check = heap[heap[imus["b2"]]._keyframe_pose]._p
  /\ call.ret = call.check
  /\ heap[imus["b1"]]._value = heap[imus["b2"]]._value

C10_Consistency ==
  \A b \in Handles : imus[b] # 0 => Consistent(heap, imus[b])

C10_Witness ==
  /\ imus["b2"] # 0
  /\ call.op = "reset_keyframe_states" /\ call.self = "b2"
  /\ block(heap[imus["b2"]]._value, 0, 7) = <<1, 1, 1, 1, 1, 1, 1>>
  /\ heap[imus["b1"]]._fej = vA

====
